---- MODULE Spec2Model ----
(***************************************************************************)
(* aLMARi backend (src/backend/app/main.py): the wardrobe store, the       *)
(* colour extractor detect_colors_kmeans, the parsing of the AI model's    *)
(* answer, and the ingestion handler process_and_add_item.                 *)
(***************************************************************************)
EXTENDS Integers, Sequences, FiniteSets, TLC

\* ------------------------------------------------------------------ bounds

\* Pixels of an uploaded image handed to the colour extractor (1..MaxImgPixels).
MaxImgPixels == 3
\* Pixels of the resized image; stands for the 150 x 150 of image.resize.
ResizedPixels == 3
\* Largest num_colors requested from detect_colors_kmeans.
MaxK == 3
\* Longest run of backticks, in units of three, around the AI model's answer.
MaxFences == 2
\* Requests to the /wardrobe endpoints in one run.
MaxCrud == 1

\* process_and_add_item calls detect_colors_kmeans(..., num_colors=5).
NumColors == 5

\* ------------------------------------------------------------ basic values

None == "None"

White == <<255, 255, 255>>
Black == <<0, 0, 0>>
Red == <<255, 0, 0>>

\* Pixel values the sample images are drawn from.
PixelValues == {White, Black, Red}

\* Uploaded bytes: an encoded image (its pixels), or bytes that PIL cannot
\* identify as an image.
ImageBytes(pixels) == [pixels |-> pixels, decodable |-> TRUE, lossy |-> FALSE]
NotAnImage == [pixels |-> <<>>, decodable |-> FALSE, lossy |-> FALSE]

Range(s) == {s[i] : i \in 1..Len(s)}

Min(a, b) == IF a <= b THEN a ELSE b

RECURSIVE SumSeq(_)
SumSeq(s) == IF s = <<>> THEN 0 ELSE Head(s) + SumSeq(Tail(s))

\* ------------------------------------------------- rgb_to_hex (main.py:184)

HexDigits ==
    <<"0", "1", "2", "3", "4", "5", "6", "7", "8", "9", "a", "b", "c", "d", "e", "f">>

\* '{:02x}': two lower-case hexadecimal digits.
Hex2(n) == HexDigits[(n \div 16) + 1] \o HexDigits[(n % 16) + 1]

rgb_to_hex(rgb) == "#" \o Hex2(rgb[1]) \o Hex2(rgb[2]) \o Hex2(rgb[3])

\* ----------------------------------- detect_colors_kmeans (main.py:187-247)

\* Image.open(BytesIO(image_data)).convert('RGB'): the decoded pixels, or the
\* exception PIL raises on bytes that are no image.
Decodable(image_data) == image_data.decodable

\* What decoding a JPEG of a pixel can give back: greys survive the colour
\* transform of the codec, a saturated channel of a coloured pixel comes back
\* one level lower.
JpegShift(p) ==
    IF p[1] = p[2] /\ p[2] = p[3] THEN p
    ELSE [c \in 1..3 |-> IF p[c] = 255 THEN 254 ELSE p[c]]

\* The pixels Image.open(...).convert('RGB') can return for decodable bytes:
\* the encoded pixels, or for JPEG bytes also their lossy round trip.
DecodedPixels(image_data) ==
    {image_data.pixels} \cup
    (IF image_data.lossy
        THEN {[i \in 1..Len(image_data.pixels) |-> JpegShift(image_data.pixels[i])]}
        ELSE {})

\* image.resize((150, 150)) and np.array(image).reshape(-1, 3): always
\* ResizedPixels pixels, sampled over the source.
ResizeImage(pixels) ==
    [i \in 1..ResizedPixels |-> pixels[(((i - 1) * Len(pixels)) \div ResizedPixels) + 1]]

NotWhite(p) == p # White
NotBlack(p) == p # Black

\* pixels[~np.all(pixels == [255,255,255], axis=1)], then the same for black.
FilterBackground(pixels) == SelectSeq(SelectSeq(pixels, NotWhite), NotBlack)

\* The clustering input without the fallback to the unfiltered pixels.
ClusterInputNoFallback(pixels) == FilterBackground(pixels)

\* if len(pixels) == 0: pixels = np.array(image).reshape(-1, 3)
ClusterInput(pixels) ==
    IF Len(FilterBackground(pixels)) = 0 THEN pixels ELSE FilterBackground(pixels)

\* n_clusters = min(num_colors, len(pixels))
NClusters(num_colors, pixels) == Min(num_colors, Len(pixels))

Members(labels, i) == {j \in DOMAIN labels : labels[j] = i}

RECURSIVE SumChannel(_, _, _)
SumChannel(pixels, idx, c) ==
    IF idx = {} THEN 0
    ELSE LET j == CHOOSE x \in idx : TRUE
         IN pixels[j][c] + SumChannel(pixels, idx \ {j}, c)

\* A cluster centre is the mean of its members; .astype(int) truncates it.
Centroid(pixels, idx) ==
    [c \in 1..3 |-> SumChannel(pixels, idx, c) \div Cardinality(idx)]

\* The centre KMeans can report for cluster i: the mean of its samples, or,
\* for a cluster left without samples, one of the samples.
CentreChoices(pixels, labels, i) ==
    IF Members(labels, i) = {} THEN Range(pixels)
    ELSE {Centroid(pixels, Members(labels, i))}

\* The labellings KMeans can end with: labels_ gives every sample the index of
\* its nearest centre (labels 0..n-1), so equal samples carry equal labels.
Labellings(pixels, n) ==
    {[j \in 1..Len(pixels) |-> g[pixels[j]]] : g \in [Range(pixels) -> 0..(n - 1)]}

\* What KMeans(n_clusters=n, random_state=42, n_init=10).fit(pixels) can leave
\* in labels_ and cluster_centers_: one of the labellings, one centre per
\* cluster.  Empty when sklearn rejects n (n < 1, or more clusters than
\* samples).
KMeansFits(pixels, n) ==
    IF n < 1 \/ n > Len(pixels) THEN {}
    ELSE UNION {
        {[labels |-> l, cluster_centers |-> c] :
            c \in {f \in [0..(n - 1) ->
                            UNION {CentreChoices(pixels, l, i) : i \in 0..(n - 1)}] :
                     \A i \in 0..(n - 1) : f[i] \in CentreChoices(pixels, l, i)}} :
        l \in Labellings(pixels, n)}

\* round(label_counts[i] / total_pixels, 3), in thousandths: Python rounds
\* half to even.
Frequency(count, total) ==
    LET q == (count * 1000) \div total
        r == (count * 1000) % total
    IN  IF 2 * r < total THEN q
        ELSE IF 2 * r > total THEN q + 1
        ELSE IF q % 2 = 0 THEN q ELSE q + 1

\* for i, color in enumerate(colors): result.append({...})
BuildResult(fit) ==
    [i \in 1..Cardinality(DOMAIN fit.cluster_centers) |->
        [rgb |-> fit.cluster_centers[i - 1],
         hex |-> rgb_to_hex(fit.cluster_centers[i - 1]),
         frequency |-> Frequency(Cardinality(Members(fit.labels, i - 1)),
                                 Len(fit.labels))]]

RECURSIVE InsertByFrequency(_, _)
InsertByFrequency(e, s) ==
    IF s = <<>> THEN <<e>>
    ELSE IF Head(s).frequency >= e.frequency
            THEN <<Head(s)>> \o InsertByFrequency(e, Tail(s))
            ELSE <<e>> \o s

RECURSIVE SortFrom(_, _)
SortFrom(s, acc) ==
    IF s = <<>> THEN acc ELSE SortFrom(Tail(s), InsertByFrequency(Head(s), acc))

\* The result left in cluster order, unsorted.
SortByFrequencyOmitted(result) == result

\* result.sort(key=lambda x: x['frequency'], reverse=True): stable, descending.
SortByFrequency(result) == SortFrom(result, <<>>)

\* The except branch: plain white at frequency 1.0.
FallbackPalette == <<[rgb |-> White, hex |-> "#FFFFFF", frequency |-> 1000]>>

\* One run of detect_colors_kmeans: the pixels handed to KMeans, its labels,
\* whether the try block raised, and the list returned.
\*  - bytes that are no image: Image.open raises;
\*  - KMeans rejects n_clusters, or fails for a reason of its own: it raises;
\*  - else one of KMeans's fits, built into the sorted result.
Outcome(pixels, labels, raised, result) ==
    [labels |-> labels, raised |-> raised, pixels |-> pixels, result |-> result]

RaisedOutcome(pixels) == Outcome(pixels, <<>>, TRUE, FallbackPalette)

DetectColorsOutcomes(image_data, num_colors) ==
    IF ~Decodable(image_data) THEN {RaisedOutcome(<<>>)}
    ELSE UNION {
        LET pixels == ClusterInput(ResizeImage(decoded))
        IN  {RaisedOutcome(pixels)} \cup
            {Outcome(pixels, fit.labels, FALSE, SortByFrequency(BuildResult(fit))) :
                fit \in KMeansFits(pixels, NClusters(num_colors, pixels))} :
        decoded \in DecodedPixels(image_data)}

\* The lists detect_colors_kmeans can return.
DetectColorsResults(image_data, num_colors) ==
    {out.result : out \in DetectColorsOutcomes(image_data, num_colors)}

\* Images of 1..n pixels over PixelValues, as uploaded bytes.
ImagesUpTo(n) ==
    {ImageBytes(px) : px \in UNION {[1..len -> PixelValues] : len \in 1..n}}

\* ------------------------------ the AI model's answer (main.py:462-468, 518-519)

\* The answer's text is a sequence of tokens: a backtick, a newline, the
\* language tag of a fence, prose, or a complete JSON document.
Tick == "backtick"
Newline == "\n"
LangTag == "json"
Prose == "Here is the analysis"
DocFull == "{category, subcategory, material, seasonality, formality}"
DocPartial == "{category}"
DocNumber == "42"

JsonDocs == {DocFull, DocPartial, DocNumber}

\* A JSON object is its set of <<key, value>> members.
EmptyObject == {}
FullObject ==
    {<<"category", "Tops">>, <<"subcategory", "T-Shirt">>, <<"material", "cotton">>,
     <<"seasonality", "Spring,Summer">>, <<"formality", "casual">>}
PartialObject == {<<"category", "Tops">>}

JsonObject(fields) == [fields |-> fields, is_object |-> TRUE]
JsonNumber == [fields |-> {}, is_object |-> FALSE]

DocValue(doc) ==
    IF doc = DocFull THEN JsonObject(FullObject)
    ELSE IF doc = DocPartial THEN JsonObject(PartialObject)
    ELSE JsonNumber

\* dict.get(key): the value of the member, or None.
Get(fields, key) ==
    IF \E m \in fields : m[1] = key
        THEN (CHOOSE m \in fields : m[1] = key)[2]
        ELSE None

IsSpace(tok) == tok = Newline

RECURSIVE LStrip(_)
LStrip(s) == IF s # <<>> /\ IsSpace(Head(s)) THEN LStrip(Tail(s)) ELSE s

RECURSIVE RStrip(_)
RStrip(s) ==
    IF s # <<>> /\ IsSpace(s[Len(s)]) THEN RStrip(SubSeq(s, 1, Len(s) - 1)) ELSE s

\* str.strip()
Strip(s) == RStrip(LStrip(s))

Ticks(n) == [i \in 1..n |-> Tick]

\* str.replace(six backticks, ''): every non-overlapping run of six backticks,
\* left to right, is removed.
RECURSIVE ReplaceSixTicks(_)
ReplaceSixTicks(s) ==
    IF Len(s) >= 6 /\ SubSeq(s, 1, 6) = Ticks(6)
        THEN ReplaceSixTicks(SubSeq(s, 7, Len(s)))
    ELSE IF s = <<>> THEN s
    ELSE <<Head(s)>> \o ReplaceSixTicks(Tail(s))

\* response.text.strip().replace(six backticks, '')
CleanResponse(text) == ReplaceSixTicks(Strip(text))

\* json.loads: one JSON document, white space around it allowed; anything
\* else raises.
json_loads(s) ==
    IF Len(Strip(s)) = 1 /\ Strip(s)[1] \in JsonDocs
        THEN [raised |-> FALSE, value |-> DocValue(Strip(s)[1])]
        ELSE [raised |-> TRUE, value |-> JsonNumber]

\* The parse without the try/except: a failure is not caught.
ParseIngestUncaught(text) == json_loads(CleanResponse(text))

\* process_and_add_item, lines 465-468: the bare except turns a parse failure
\* into ai_analysis = {}.
ParseIngest(text) ==
    IF json_loads(CleanResponse(text)).raised
        THEN [raised |-> FALSE, value |-> JsonObject(EmptyObject)]
        ELSE json_loads(CleanResponse(text))

\* The answers of the AI model the checks draw from: a document or prose,
\* between an opening run of backticks (with or without the language tag and a
\* newline) and a closing run (with or without a newline before it).
FenceRuns == {3 * n : n \in 0..MaxFences}

Answers ==
    {Ticks(open) \o tag \o nl1 \o <<body>> \o nl2 \o Ticks(close) :
        open \in FenceRuns, close \in FenceRuns,
        tag \in {<<>>, <<LangTag>>}, nl1 \in {<<>>, <<Newline>>},
        nl2 \in {<<>>, <<Newline>>}, body \in JsonDocs \cup {Prose}}

\* model.generate_content raised: the AI service was not reached.
TransportFailure == <<"transport failure">>

\* A JSON document wrapped in code-fence markers: three backticks, optionally a
\* language tag, a newline, the document, a newline, three backticks.
Fenced(doc) ==
    {Ticks(3) \o tag \o <<Newline, doc, Newline>> \o Ticks(3) : tag \in {<<>>, <<LangTag>>}}

\* ------------------------------------------------ the wardrobe table, files

\* WardrobeItem (main.py:35-47).
WardrobeItem(id, name, category, subcategory, color, material, seasonality, formality, image_uri, in_laundry) ==
    [id |-> id, name |-> name, category |-> category, subcategory |-> subcategory,
     color |-> color, material |-> material, seasonality |-> seasonality,
     formality |-> formality, image_uri |-> image_uri, in_laundry |-> in_laundry]

NoItem == WardrobeItem(0, None, None, None, None, None, None, None, None, FALSE)

Ids(table) == {it.id : it \in table}

Max(S) == CHOOSE x \in S : \A y \in S : y <= x

\* The id SQLite gives a row inserted with id = None: the table declares
\* INTEGER PRIMARY KEY without AUTOINCREMENT, so it is the largest id in the
\* table plus one.
NextId(table) == IF table = {} THEN 1 ELSE Max(Ids(table)) + 1

\* A path no file was ever stored at.
GhostUri == "uploads/ghost.jpg"

\* ----------------------------------- process_and_add_item (main.py:411-495)

\* The executions of process_and_add_item: two, as the claims about
\* concurrent ingestion compare two executions.
Execs == {1, 2}

\* The values uuid.uuid4() draws from: one for each execution.
Uuids == {"uuid" \o ToString(p) : p \in Execs}

\* A file named after the item, not after a fresh uuid.
FileNameFromName(uuid, name) == name \o ".jpg"

\* image_filename = f"{uuid.uuid4()}.jpg"
FileName(uuid, name) == uuid \o ".jpg"

\* image_uri = f"uploads/{image_filename}"
ImageUri(image_filename) == "uploads/" \o image_filename

\* "image_url": f"/uploads/{image_filename}"
ImageUrl(image_filename) == "/uploads/" \o image_filename

\* The uploads the ingestion is tried on.
Uploads == {NotAnImage, ImageBytes(<<White, Red>>)}

\* The item name of the request.
ItemNames == {"shirt"}

\* The alpha levels of the mask rembg returns.
AlphaLevels == {0, 255}

\* What remove(content) can return for a decodable image: the pixels with an
\* alpha channel (mode RGBA), or without one.
Segmentations(content) ==
    {[mode |-> "RGBA", pixels |-> content.pixels, alpha |-> a] :
        a \in [1..Len(content.pixels) -> AlphaLevels]}
    \cup {[mode |-> "RGB", pixels |-> content.pixels,
           alpha |-> [i \in 1..Len(content.pixels) |-> 255]]}

\* white_bg.paste(img_rgba, mask=alpha): each channel blended over white.
Composite(img) ==
    [i \in 1..Len(img.pixels) |->
        [c \in 1..3 |->
            (img.pixels[i][c] * img.alpha[i] + 255 * (255 - img.alpha[i])) \div 255]]

\* Lines 428-433: composite over white when the mode is RGBA, else convert.
FinalImage(img) == IF img.mode = "RGBA" THEN Composite(img) ELSE img.pixels

\* final_image.save(..., format='JPEG', quality=95)
JpegBytes(pixels) == [pixels |-> pixels, decodable |-> TRUE, lossy |-> TRUE]

\* A variant: the colours are taken from the upload, not from the processed
\* image.
ColorInputRaw(content, final_image) == content

\* Lines 444-447: the bytes handed to detect_colors_kmeans.
ColorInput(content, final_image) == JpegBytes(final_image)

\* A variant: the condition inverted, the default taken for every palette.
DominantColorDefault(colors) == IF colors = <<>> THEN colors[1].hex ELSE "#FFFFFF"

\* dominant_color_hex = colors[0]['hex'] if colors else "#FFFFFF"
DominantColor(colors) == IF colors # <<>> THEN colors[1].hex ELSE "#FFFFFF"

\* The answers of the AI model the ingestion is tried on.
IngestAnswers ==
    {TransportFailure, <<DocFull>>, <<Prose>>, <<DocNumber>>,
     Ticks(3) \o <<LangTag, Newline, DocFull, Newline>> \o Ticks(3)}

\* Lines 471-481.
NewItem(id, name, analysis, color, image_uri) ==
    WardrobeItem(id, name, Get(analysis, "category"), Get(analysis, "subcategory"),
                 color, Get(analysis, "material"), Get(analysis, "seasonality"),
                 Get(analysis, "formality"), image_uri, FALSE)

\* -------------------------------------------------------------- the state

HttpResponse(status, detail, body) == [body |-> body, status |-> status, detail |-> detail]
NoResponse == HttpResponse(0, None, JsonObject(EmptyObject))

\* The response of process_and_add_item: the dictionary returned (status 200),
\* or the HTTPException raised by the except branch.
IngestResponse(status, detail, item, analysis, detected_color, image_url) ==
    [analysis |-> analysis, status |-> status, detail |-> detail, item |-> item,
     detected_color |-> detected_color, image_url |-> image_url]

NoIngestResponse == IngestResponse(0, None, NoItem, EmptyObject, None, None)

\* raise HTTPException(status_code=500, detail=f"Processing failed: {str(e)}")
ProcessingFailed(e) ==
    IngestResponse(500, "Processing failed: " \o e, NoItem, EmptyObject, None, None)

VARIABLES
    items,          \* the rows of the wardrobe table
    files,          \* the upload directory: path -> bytes stored there
    drawn,          \* the values uuid.uuid4() has returned
    req,            \* the executions of process_and_add_item: position and locals
    crud_status,    \* the status of the last response of a /wardrobe endpoint
    crud_count,     \* the requests to the /wardrobe endpoints so far
    crud_request,   \* the last request to a /wardrobe endpoint
    dc_image,       \* detect_colors_kmeans: image_data of the call
    dc_k,           \* its num_colors
    dc_out,         \* its outcome (pixels clustered, labels, raised, result)
    ac_request,     \* POST /analyze-clothing: is request.image a decodable image
    ac_answer,      \* the AI model's answer to it (a text, or TransportFailure)
    ac_response,    \* the HTTP response of analyze_clothing
    ai_parsed       \* what lines 465-468 of process_and_add_item make of ac_answer

vars == <<items, files, drawn, req, crud_status, crud_count, crud_request,
          dc_image, dc_k, dc_out, ac_request, ac_answer, ac_response, ai_parsed>>

store_vars == <<items, files, drawn, req, crud_status, crud_count, crud_request>>
palette_vars == <<dc_image, dc_k, dc_out>>
classify_vars == <<ac_request, ac_answer, ac_response, ai_parsed>>

NoCall == Outcome(<<>>, <<>>, FALSE, <<>>)

\* ai_analysis before the answer is parsed.
NotParsed == [raised |-> TRUE, value |-> JsonNumber]

\* The requests to the /wardrobe endpoints, as the handlers receive them: the
\* endpoint, the item_id of the path, and the fields set in the body with
\* their values (none for a delete).
CrudRequest(op, item_id, upd) == [op |-> op, item_id |-> item_id, upd |-> upd]
NoUpdate == [fields |-> {}, values |-> NoItem]
NoRequest == CrudRequest("none", 0, NoUpdate)

\* An execution that has not read its upload yet.
Idle ==
    [name |-> None, image_filename |-> None, content |-> NotAnImage,
     final_image |-> <<>>, colors |-> <<>>, pc |-> "idle",
     dominant_color_hex |-> None, answer |-> <<>>,
     ai_analysis |-> JsonObject(EmptyObject), response |-> NoIngestResponse]

InitStore ==
    /\ items = {}
    /\ files = <<>>
    /\ drawn = {}
    /\ req = [p \in Execs |-> Idle]
    /\ crud_status = 0
    /\ crud_count = 0
    /\ crud_request = NoRequest

InitPaletteIdle ==
    /\ dc_image = NotAnImage
    /\ dc_k = 0
    /\ dc_out = NoCall

InitClassifyIdle ==
    /\ ac_request = FALSE
    /\ ac_answer = TransportFailure
    /\ ac_response = NoResponse
    /\ ai_parsed = NotParsed

Init ==
    /\ InitStore
    /\ InitPaletteIdle
    /\ InitClassifyIdle

\* ------------------------------------------------ POST /api/detect-colors

InitPalette ==
    /\ dc_image \in ImagesUpTo(MaxImgPixels) \cup {NotAnImage}
    /\ dc_k \in 0..MaxK
    /\ dc_out = NoCall
    /\ InitClassifyIdle
    /\ InitStore

\* A call detect_colors_kmeans(dc_image, dc_k).
DetectColorsCall ==
    /\ dc_out = NoCall
    /\ dc_out' \in DetectColorsOutcomes(dc_image, dc_k)
    /\ UNCHANGED <<dc_image, dc_k, classify_vars, store_vars>>

NextPalette == DetectColorsCall

SpecPalette == InitPalette /\ [][NextPalette]_vars

\* ------------------------------------------------- POST /analyze-clothing

InitClassify ==
    /\ ac_request \in BOOLEAN
    /\ ac_answer \in Answers \cup {TransportFailure}
    /\ ac_response = NoResponse
    /\ ai_parsed = NotParsed
    /\ InitPaletteIdle
    /\ InitStore

\* analyze_clothing (main.py:499-524): every exception becomes a 500.
AnalyzeClothing ==
    /\ ac_response = NoResponse
    /\ ac_response' =
        IF ~ac_request THEN HttpResponse(500, "cannot identify image file", JsonNumber)
        ELSE IF ac_answer = TransportFailure
            THEN HttpResponse(500, "generate_content failed", JsonNumber)
        ELSE IF json_loads(CleanResponse(ac_answer)).raised
            THEN HttpResponse(500, "JSONDecodeError", JsonNumber)
        ELSE HttpResponse(200, None, json_loads(CleanResponse(ac_answer)).value)
    /\ UNCHANGED <<ac_request, ac_answer, ai_parsed, palette_vars, store_vars>>

\* The parse of process_and_add_item (main.py:464-468) on the same answer.
ParseAnswer ==
    /\ ai_parsed = NotParsed
    /\ ac_answer # TransportFailure
    /\ ai_parsed' = ParseIngest(ac_answer)
    /\ UNCHANGED <<ac_request, ac_answer, ac_response, palette_vars, store_vars>>

NextClassify == AnalyzeClothing \/ ParseAnswer

SpecClassify == InitClassify /\ [][NextClassify]_vars

\* -------------------------------------------- POST /image/process-and-add

\* The handler has returned or raised: its frame is gone, the request (the
\* upload, the name), what the services did for it (the file name drawn, the
\* answer of the AI model) and the response remain.
Returned(r, response) ==
    [r EXCEPT !.pc = "done", !.final_image = <<>>, !.colors = <<>>,
              !.dominant_color_hex = None, !.ai_analysis = JsonObject(EmptyObject),
              !.response = response]

Fail(p, e) == req' = [req EXCEPT ![p] = Returned(req[p], ProcessingFailed(e))]

FileExists(path) == path \in DOMAIN files

\* Writing data at path: creates the file or replaces its content.
WriteFile(path, data) ==
    [f \in DOMAIN files \cup {path} |-> IF f = path THEN data ELSE files[f]]

\* A variant: the except branch removes the file the execution has stored.
FilesUnlinked(path) == [f \in DOMAIN files \ {path} |-> files[f]]

\* The except branch (lines 494-495) raises the HTTPException and touches no
\* file: what step 2 has stored stays.
FilesAfterFailure(path) == files

\* content = await file.read()
Upload(p) ==
    /\ req[p].pc = "idle"
    /\ \E content \in Uploads, name \in ItemNames :
        req' = [req EXCEPT ![p].pc = "remove", ![p].content = content, ![p].name = name]
    /\ UNCHANGED <<items, files, drawn, crud_status, crud_count, crud_request, palette_vars, classify_vars>>

\* Step 1 (lines 425-433): remove(content), Image.open, composite over white.
RemoveBackground(p) ==
    /\ req[p].pc = "remove"
    /\ \/ /\ ~Decodable(req[p].content)
          /\ Fail(p, "cannot identify image file")
       \/ /\ Decodable(req[p].content)
          /\ Fail(p, "segmentation failed")
       \/ /\ Decodable(req[p].content)
          /\ \E img \in Segmentations(req[p].content) :
                req' = [req EXCEPT ![p].pc = "save", ![p].final_image = FinalImage(img)]
    /\ UNCHANGED <<items, files, drawn, crud_status, crud_count, crud_request, palette_vars, classify_vars>>

\* Step 2 (lines 436-441): a fresh uuid names the file, the image is saved.
\* A save that raises leaves no file.
SaveFile(p) ==
    /\ req[p].pc = "save"
    /\ \E uuid \in Uuids \ drawn :
        /\ drawn' = drawn \cup {uuid}
        /\ \/ /\ files' = WriteFile(ImageUri(FileName(uuid, req[p].name)),
                                    JpegBytes(req[p].final_image))
              /\ req' = [req EXCEPT ![p].pc = "colors",
                                    ![p].image_filename = FileName(uuid, req[p].name)]
           \/ /\ Fail(p, "cannot write file")
              /\ UNCHANGED files
    /\ UNCHANGED <<items, crud_status, crud_count, crud_request, palette_vars, classify_vars>>

\* Step 3 (lines 444-448): the palette of the processed image, its first hex.
DetectColors(p) ==
    /\ req[p].pc = "colors"
    /\ \E colors \in DetectColorsResults(ColorInput(req[p].content, req[p].final_image),
                                          NumColors) :
        req' = [req EXCEPT ![p].pc = "classify", ![p].colors = colors,
                           ![p].dominant_color_hex = DominantColor(colors)]
    /\ UNCHANGED <<items, files, drawn, crud_status, crud_count, crud_request, palette_vars, classify_vars>>

\* Step 4 (lines 451-468): the call of the AI model, the parse of its answer.
Classify(p) ==
    /\ req[p].pc = "classify"
    /\ \E answer \in IngestAnswers :
        \/ /\ answer = TransportFailure
           /\ req' = [req EXCEPT ![p] = Returned([req[p] EXCEPT !.answer = answer],
                                    ProcessingFailed("generate_content failed"))]
           /\ files' = FilesAfterFailure(ImageUri(req[p].image_filename))
        \/ /\ answer # TransportFailure
           /\ req' = [req EXCEPT ![p].pc = "persist", ![p].answer = answer,
                         ![p].ai_analysis = ParseIngest(answer).value]
           /\ UNCHANGED files
    /\ UNCHANGED <<items, drawn, crud_status, crud_count, crud_request, palette_vars, classify_vars>>

\* The row process_and_add_item inserts.
IngestItem(p) ==
    NewItem(NextId(items), req[p].name, req[p].ai_analysis.fields,
            req[p].dominant_color_hex, ImageUri(req[p].image_filename))

\* Step 5 (lines 471-492): build the row, commit it, return it.  An answer
\* that is no JSON object has no get: building the row raises.
Persist(p) ==
    /\ req[p].pc = "persist"
    /\ \/ /\ ~req[p].ai_analysis.is_object
          /\ Fail(p, "object has no attribute 'get'")
          /\ files' = FilesAfterFailure(ImageUri(req[p].image_filename))
          /\ UNCHANGED items
       \/ /\ req[p].ai_analysis.is_object
          /\ Fail(p, "commit failed")
          /\ files' = FilesAfterFailure(ImageUri(req[p].image_filename))
          /\ UNCHANGED items
       \/ /\ req[p].ai_analysis.is_object
          /\ items' = items \cup {IngestItem(p)}
          /\ req' = [req EXCEPT ![p] =
                        Returned(req[p],
                                 IngestResponse(200, None, IngestItem(p),
                                                req[p].ai_analysis.fields,
                                                req[p].dominant_color_hex,
                                                ImageUrl(req[p].image_filename)))]
          /\ UNCHANGED files
    /\ UNCHANGED <<drawn, crud_status, crud_count, crud_request, palette_vars, classify_vars>>

\* ------------------------------------------- /wardrobe (main.py:125-180)

\* The paths the responses of process_and_add_item have told the clients.
ReturnedUris ==
    {req[p].response.item.image_uri : p \in {q \in Execs : req[q].response.status = 200}}

\* The bodies POST /wardrobe is tried on: a name, and an image_uri that is
\* absent, a path of the client's own, or a path a response has returned.
CreateInputs ==
    {WardrobeItem(0, name, None, None, None, None, None, None, uri, FALSE) :
        name \in ItemNames, uri \in {None, GhostUri} \cup ReturnedUris}

\* The bodies PUT /wardrobe/{item_id} is tried on: the fields set in the
\* request (model_dump(exclude_unset=True)) and their values.
UpdateInput(fields, item) == [fields |-> fields, values |-> item]

\* The bodies tried: a path of the client's own, a nullable column set to an
\* explicit null, the name set to an explicit null, two columns at once, and
\* the empty body.
UpdateInputs ==
    {UpdateInput({"image_uri"},
                 WardrobeItem(0, None, None, None, None, None, None, None, GhostUri, FALSE)),
     UpdateInput({"color"},
                 WardrobeItem(0, None, None, None, None, None, None, None, None, FALSE)),
     UpdateInput({"name"},
                 WardrobeItem(0, None, None, None, None, None, None, None, None, FALSE)),
     UpdateInput({"name", "in_laundry"},
                 WardrobeItem(0, "coat", None, None, None, None, None, None, None, TRUE)),
     UpdateInput({},
                 WardrobeItem(0, None, None, None, None, None, None, None, None, FALSE))}

\* for key, value in item_data.items(): setattr(db_item, key, value)
ApplyUpdate(item, upd) ==
    [k \in DOMAIN item |-> IF k \in upd.fields THEN upd.values[k] ELSE item[k]]

\* The columns of the table that are NOT NULL beside the key: the fields of
\* WardrobeItemBase that are not Optional (name: str, in_laundry: bool).
\* in_laundry holds a boolean in every body tried, so the name decides.
NotNullViolated(item) == item.name = None

\* session.get(WardrobeItem, item_id)
GetItem(item_id) == CHOOSE it \in items : it.id = item_id

\* The ids the requests name: those of the table, and one that is not there.
RequestIds == Ids(items) \cup {NextId(items)}

\* create_wardrobe_item (lines 125-135).
CreateWardrobeItem ==
    /\ crud_count < MaxCrud
    /\ crud_count' = crud_count + 1
    /\ \E item \in CreateInputs :
        /\ items' = items \cup {[item EXCEPT !.id = NextId(items)]}
        /\ crud_request' = CrudRequest("create", 0, UpdateInput(DOMAIN item \ {"id"}, item))
    /\ crud_status' = 201
    /\ UNCHANGED <<files, drawn, req, palette_vars, classify_vars>>

\* update_wardrobe_item (lines 148-166).
UpdateWardrobeItem ==
    /\ crud_count < MaxCrud
    /\ crud_count' = crud_count + 1
    /\ \E item_id \in RequestIds, upd \in UpdateInputs :
        /\ crud_request' = CrudRequest("update", item_id, upd)
        /\ \/ /\ item_id \notin Ids(items)
              /\ crud_status' = 404
              /\ UNCHANGED items
           \/ /\ item_id \in Ids(items)
              /\ NotNullViolated(ApplyUpdate(GetItem(item_id), upd))
              \* session.commit() raises IntegrityError, nothing is written
              /\ crud_status' = 500
              /\ UNCHANGED items
           \/ /\ item_id \in Ids(items)
              /\ ~NotNullViolated(ApplyUpdate(GetItem(item_id), upd))
              /\ items' = (items \ {GetItem(item_id)})
                               \cup {ApplyUpdate(GetItem(item_id), upd)}
              /\ crud_status' = 200
    /\ UNCHANGED <<files, drawn, req, palette_vars, classify_vars>>

\* delete_wardrobe_item (lines 168-180).
DeleteWardrobeItem ==
    /\ crud_count < MaxCrud
    /\ crud_count' = crud_count + 1
    /\ \E item_id \in RequestIds :
        /\ crud_request' = CrudRequest("delete", item_id, NoUpdate)
        /\ \/ /\ item_id \notin Ids(items)
              /\ crud_status' = 404
              /\ UNCHANGED items
           \/ /\ item_id \in Ids(items)
              /\ items' = items \ {GetItem(item_id)}
              /\ crud_status' = 204
    /\ UNCHANGED <<files, drawn, req, palette_vars, classify_vars>>

Next ==
    \/ \E p \in Execs :
        \/ Upload(p)
        \/ RemoveBackground(p)
        \/ SaveFile(p)
        \/ DetectColors(p)
        \/ Classify(p)
        \/ Persist(p)
    \/ CreateWardrobeItem
    \/ UpdateWardrobeItem
    \/ DeleteWardrobeItem

Spec == Init /\ [][Next]_vars

\* ------------------------------------------------------------- the claims

Done(p) == req[p].pc = "done"
Succeeded(p) == req[p].response.status = 200
StoredPath(p) == ImageUri(req[p].image_filename)

\* The AI model was reached and its text, as it stands, is no JSON document.
NotJson(answer) ==
    /\ answer # <<>>
    /\ answer # TransportFailure
    /\ json_loads(answer).raised

\* C1: an ingestion of bytes that are no decodable image ends with a client
\* error (a 4xx status), inserts no row and stores no file.
C1_DecodeErrorIsClientError ==
    \A p \in Execs :
        (Done(p) /\ ~Decodable(req[p].content)) =>
            /\ req[p].response.status \in 400..499
            /\ req[p].response.item = NoItem
            /\ req[p].image_filename = None

\* C2: every row whose image_uri is set names a file of the upload directory,
\* whatever ingestions and /wardrobe requests have run.
C2_NoOrphanedReference ==
    \A it \in items : it.image_uri # None => FileExists(it.image_uri)

\* C3: two ingestions that both succeed, however their steps interleave, store
\* two files under two distinct generated names and insert two distinct rows:
\* a stored file is never written again, the file of an execution is new when
\* it is stored, the row of an execution is a new row with a new id, and the
\* references and rows the two responses return differ.
C3_Step ==
    /\ \A f \in DOMAIN files : f \in DOMAIN files' /\ files'[f] = files[f]
    /\ \A a \in items', b \in items' : a.id = b.id => a = b
    /\ \A p \in Execs :
        (req[p].pc = "save" /\ req'[p].pc = "colors") =>
            /\ ImageUri(req'[p].image_filename) \notin DOMAIN files
            /\ ImageUri(req'[p].image_filename) \in DOMAIN files'
            /\ files'[ImageUri(req'[p].image_filename)] = JpegBytes(req[p].final_image)
    /\ \A p \in Execs :
        (req[p].pc = "persist" /\ req'[p].response.status = 200) =>
            /\ req'[p].response.item.id \notin Ids(items)
            /\ req'[p].response.item.image_uri = StoredPath(p)
            /\ items' = items \cup {req'[p].response.item}
            /\ Cardinality(items') = Cardinality(items) + 1
    /\ \A p \in Execs, q \in Execs :
        (p # q /\ req'[p].image_filename # None /\ req'[q].image_filename # None) =>
            req'[p].image_filename # req'[q].image_filename
    /\ \A p \in Execs, q \in Execs :
        (p # q /\ req'[p].response.status = 200 /\ req'[q].response.status = 200) =>
            /\ req'[p].response.item # req'[q].response.item
            /\ req'[p].response.item.image_uri # req'[q].response.item.image_uri
            /\ req'[p].response.image_url # req'[q].response.image_url

\* C3: two ingestions that both succeed store distinct files and distinct rows
\* (every step satisfies C3_Step).
C3_DistinctFilesAndRows == [][C3_Step]_vars

\* Both executions have succeeded under the same item name and both rows are
\* in the table.
C3_Witness ==
    /\ \A p \in Execs : Done(p) /\ Succeeded(p) /\ req[p].response.item \in items
    /\ \A p \in Execs, q \in Execs : req[p].name = req[q].name
    /\ Cardinality(items) = 2

\* C4: an answer that is a JSON object between code-fence markers (three
\* backticks, optionally a language tag, and three closing backticks) is
\* parsed, after the markers are stripped, into the fields of that object, by
\* the ingestion and by analyze_clothing.
C4_FencedJsonIsParsed ==
    \A doc \in {DocFull, DocPartial} :
        ac_answer \in Fenced(doc) =>
            /\ ai_parsed # NotParsed => ai_parsed = [raised |-> FALSE, value |-> DocValue(doc)]
            /\ (ac_response # NoResponse /\ ac_request) =>
                    ac_response = HttpResponse(200, None, DocValue(doc))

\* C5: when the AI model answers with text that is no JSON, the ingestion
\* does not fail on it: ai_analysis is the empty object, the execution goes on
\* to step 5, and unless the commit itself fails it inserts exactly one row,
\* with category, subcategory, material, seasonality and formality unset and
\* the name, the detected colour and the image reference set, and returns 200.
C5_Step ==
    \A p \in Execs :
        /\ (req[p].pc = "classify" /\ NotJson(req'[p].answer)) =>
                /\ req'[p].pc = "persist"
                /\ req'[p].ai_analysis = JsonObject(EmptyObject)
        /\ (req[p].pc = "persist" /\ NotJson(req[p].answer) /\ req'[p].pc = "done") =>
                \/ /\ req'[p].response.status = 500
                   /\ req'[p].response.detail = "Processing failed: commit failed"
                   /\ items' = items
                \/ /\ req'[p].response.status = 200
                   /\ req'[p].response.analysis = EmptyObject
                   /\ req'[p].response.item =
                        WardrobeItem(NextId(items), req[p].name, None, None,
                                     req[p].dominant_color_hex, None, None, None,
                                     StoredPath(p), FALSE)
                   /\ req[p].name # None
                   /\ req[p].dominant_color_hex # None
                   /\ req[p].image_filename # None
                   /\ items' = items \cup {req'[p].response.item}
                   /\ Cardinality(items') = Cardinality(items) + 1

\* C5: an answer that is no JSON is absorbed and the item is stored with its
\* attributes unset (every step satisfies C5_Step).
C5_UnparseableAnswerAbsorbed == [][C5_Step]_vars

\* An ingestion whose answer was prose has succeeded and its row, with the
\* five attributes unset, is in the table.
C5_Witness ==
    \E p \in Execs :
        /\ Done(p) /\ Succeeded(p)
        /\ req[p].answer = <<Prose>>
        /\ req[p].response.item \in items
        /\ req[p].response.item.category = None
        /\ req[p].response.item.formality = None
        /\ req[p].response.item.color # None

PaletteFrequencies == [i \in 1..Len(dc_out.result) |-> dc_out.result[i].frequency]

LabelCounts ==
    [i \in 1..Len(dc_out.result) |-> Cardinality(Members(dc_out.labels, i - 1))]

\* C6: for a decodable image and k >= 1, detect_colors_kmeans returns between
\* 1 and k entries, in non-increasing order of frequency, each frequency in
\* [0, 1], the frequencies summing to 1.0 up to the rounding of each (half a
\* thousandth), the cluster sizes summing to the number of clustered pixels.
C6_PaletteShape ==
    (dc_out # NoCall /\ Decodable(dc_image) /\ dc_k >= 1) =>
        /\ Len(dc_out.result) \in 1..dc_k
        /\ \A i \in 1..(Len(dc_out.result) - 1) :
                dc_out.result[i].frequency >= dc_out.result[i + 1].frequency
        /\ \A i \in 1..Len(dc_out.result) : dc_out.result[i].frequency \in 0..1000
        /\ 2 * (SumSeq(PaletteFrequencies) - 1000) <= Len(dc_out.result)
        /\ 2 * (1000 - SumSeq(PaletteFrequencies)) <= Len(dc_out.result)
        /\ ~dc_out.raised => SumSeq(LabelCounts) = Len(dc_out.pixels)

\* A clustering into three clusters with unequal frequencies.
C6_Witness ==
    /\ dc_out # NoCall /\ ~dc_out.raised /\ dc_k >= 1
    /\ Len(dc_out.result) >= 2
    /\ dc_out.result[1].frequency > dc_out.result[2].frequency
    /\ dc_out.result[2].frequency > 0

\* C7: detect_colors_kmeans never clusters an empty pixel set: when the
\* removal of the pure white and pure black pixels leaves nothing, the whole
\* resized image is clustered, and the list returned is not empty.
C7_NeverClustersEmptySet ==
    (dc_out # NoCall /\ Decodable(dc_image)) =>
        /\ Len(dc_out.pixels) >= 1
        /\ FilterBackground(ResizeImage(dc_image.pixels)) = <<>> =>
                dc_out.pixels = ResizeImage(dc_image.pixels)
        /\ FilterBackground(ResizeImage(dc_image.pixels)) # <<>> =>
                dc_out.pixels = FilterBackground(ResizeImage(dc_image.pixels))
        /\ dc_out.result # <<>>

\* An image of pure white and pure black pixels only has been clustered.
C7_Witness ==
    /\ dc_out # NoCall /\ ~dc_out.raised
    /\ White \in Range(dc_image.pixels) /\ Black \in Range(dc_image.pixels)
    /\ Range(dc_image.pixels) \subseteq {White, Black}
    /\ dc_out.pixels = ResizeImage(dc_image.pixels)
    /\ dc_out.result # <<>>

\* C8: an ingestion that fails after its file is stored (the AI call fails,
\* or the row cannot be built or committed) returns a 500, inserts no row and
\* leaves the file where it is, with no row referring to it.
C8_Step ==
    \A p \in Execs :
        /\ (req[p].pc \in {"classify", "persist"} /\ req'[p].pc = "done"
                /\ req'[p].response.status # 200) =>
                /\ req'[p].response.status = 500
                /\ req'[p].response.item = NoItem
                /\ items' = items
                /\ files' = files
                /\ StoredPath(p) \in DOMAIN files'
        /\ (req'[p].pc = "done" /\ req'[p].response.status = 500
                /\ req'[p].image_filename # None) =>
                /\ ImageUri(req'[p].image_filename) \in DOMAIN files'
                /\ \A it \in items' : it.image_uri # ImageUri(req'[p].image_filename)

\* C8: a failure after the file is stored answers 500, stores no row and leaves
\* the file (every step satisfies C8_Step).
C8_FailureLeavesOrphanFile == [][C8_Step]_vars

\* One ingestion failed on the AI call and the other on the commit: both files
\* are there, no row was inserted.
C8_Witness ==
    \E p \in Execs, q \in Execs :
        /\ Done(p) /\ req[p].answer = TransportFailure /\ req[p].response.status = 500
        /\ Done(q) /\ req[q].response.detail = "Processing failed: commit failed"
        /\ FileExists(StoredPath(p)) /\ FileExists(StoredPath(q))
        /\ items = {}

\* C9: colour extraction never ends the ingestion: step 3 always goes on to
\* step 4 with a palette that is not empty, the canonical colour is the hex of
\* its first entry, which has the highest frequency, the fallback palette
\* (plain white at 1.0, all the extractor returns for bytes it cannot decode)
\* gives the colour white, and that colour is the one the row is stored with.
C9_Step ==
    \A p \in Execs :
        /\ (req[p].pc = "colors" /\ req'[p] # req[p]) =>
                /\ req'[p].pc = "classify"
                /\ req'[p].colors # <<>>
                /\ req'[p].dominant_color_hex = req'[p].colors[1].hex
                /\ \A i \in 1..Len(req'[p].colors) :
                        req'[p].colors[1].frequency >= req'[p].colors[i].frequency
                /\ req'[p].colors = FallbackPalette => req'[p].dominant_color_hex = "#FFFFFF"
        /\ DetectColorsResults(NotAnImage, NumColors) = {FallbackPalette}
        /\ (req[p].pc = "classify" /\ req'[p].pc = "persist") =>
                req'[p].dominant_color_hex = req[p].dominant_color_hex
        /\ (req[p].pc = "persist" /\ req'[p].response.status = 200) =>
                /\ req'[p].response.item.color = req[p].dominant_color_hex
                /\ req'[p].response.detected_color = req[p].dominant_color_hex
                /\ req'[p].response.item \in items'

\* C9: colour extraction never ends the ingestion and the colour is the first
\* hex of the palette (every step satisfies C9_Step).
C9_ColorNeverFatal == [][C9_Step]_vars

\* One ingestion succeeded on the fallback palette, with the colour white,
\* the other on a clustered palette.
C9_Witness ==
    \E p \in Execs, q \in Execs :
        /\ Done(p) /\ Succeeded(p) /\ req[p].response.item.color = "#FFFFFF"
        /\ Done(q) /\ Succeeded(q) /\ req[q].response.item.color = rgb_to_hex(Red)

\* The order of the stages of one execution.
StageOrder ==
    {<<"idle", "remove">>, <<"remove", "save">>, <<"save", "colors">>,
     <<"colors", "classify">>, <<"classify", "persist">>, <<"persist", "done">>,
     <<"remove", "done">>, <<"save", "done">>, <<"classify", "done">>}

\* C10: an execution goes through background removal, file storage, colour
\* extraction on the processed image, AI classification and row insertion in
\* that order; files are written in step 2 only and rows inserted in step 5
\* only, after the file of the execution is stored and the AI model has
\* answered; a failure of background removal or of the file write ends the
\* execution with a 500, and no later stage has run.
C10_Step ==
    \A p \in Execs :
        req'[p] # req[p] =>
            /\ req'[p].pc # req[p].pc /\ <<req[p].pc, req'[p].pc>> \in StageOrder
            /\ files' # files => (req[p].pc = "save" /\ req'[p].pc = "colors")
            /\ (req[p].pc = "save" /\ req'[p].pc = "colors") =>
                    files'[ImageUri(req'[p].image_filename)] = JpegBytes(req[p].final_image)
            /\ req[p].pc = "colors" =>
                    req'[p].colors \in
                        DetectColorsResults(JpegBytes(req[p].final_image), NumColors)
            /\ items' # items =>
                    /\ req[p].pc = "persist"
                    /\ FileExists(StoredPath(p))
                    /\ req[p].answer \in IngestAnswers \ {TransportFailure}
                    /\ req[p].dominant_color_hex # None
            /\ (req[p].pc \in {"remove", "save"} /\ req'[p].pc = "done") =>
                    /\ req'[p].response.status = 500
                    /\ req'[p].image_filename = None
                    /\ req'[p].answer = <<>>
                    /\ items' = items
                    /\ files' = files

\* C10: the stages run in the order of the handler, each on the output of the
\* one before (every step satisfies C10_Step).
C10_StagesInOrder == [][C10_Step]_vars

\* One execution went through all five stages, the other stopped at the
\* background removal.
C10_Witness ==
    \E p \in Execs, q \in Execs :
        /\ Done(p) /\ Succeeded(p) /\ FileExists(StoredPath(p))
        /\ Done(q) /\ req[q].response.detail = "Processing failed: segmentation failed"
        /\ DOMAIN files = {StoredPath(p)}


\* The step is a request to PUT or DELETE /wardrobe/{item_id}.
UpdateOrDelete ==
    /\ crud_count' # crud_count
    /\ crud_request'.op \in {"update", "delete"}

\* The row new is the row old with exactly the fields of the body upd set to
\* the body's values: the other fields, the id among them, are those of old.
UpdatedExactly(old, new, upd) ==
    /\ new.id = old.id
    /\ \A k \in upd.fields : new[k] = upd.values[k]
    /\ \A k \in (DOMAIN old) \ upd.fields : new[k] = old[k]

\* An id that is not in the table: 404, and the table is left as it was.
MissingIdFrame ==
    crud_request'.item_id \notin Ids(items) =>
        /\ crud_status' = 404
        /\ items' = items

\* A delete of an id that is in the table removes that row and no other.
DeleteFrame ==
    (crud_request'.op = "delete" /\ crud_request'.item_id \in Ids(items)) =>
        /\ crud_status' = 204
        /\ items' = items \ {GetItem(crud_request'.item_id)}
        /\ Cardinality(items') = Cardinality(items) - 1

\* An update of an id that is in the table sets exactly the fields of the body
\* and leaves every other row.
UpdateFrame ==
    (crud_request'.op = "update" /\ crud_request'.item_id \in Ids(items)) =>
        LET old == GetItem(crud_request'.item_id) IN
        \E new \in items' :
            /\ UpdatedExactly(old, new, crud_request'.upd)
            /\ items' \ {new} = items \ {old}

C11_Step ==
    UpdateOrDelete =>
        /\ files' = files
        /\ MissingIdFrame
        /\ DeleteFrame
        /\ UpdateFrame

\* C11: update and delete have a strict frame: an update of an existing id
\* changes exactly the fields present in the request, those set to null
\* included, and leaves the row's other fields, its id and every other row;
\* update and delete of an id that does not exist answer 404 and leave the
\* store; a delete of an existing id removes exactly that row and leaves the
\* stored files (every step satisfies C11_Step).
C11_StrictFrame == [][C11_Step]_vars

\* What the handlers keep: the frame of C11 for every request whose commit
\* succeeds, and for an update that would leave the name null (a NOT NULL
\* column) the answer 500 with the table as it was.
CommittedStep ==
    UpdateOrDelete =>
        /\ files' = files
        /\ MissingIdFrame
        /\ DeleteFrame
        /\ (crud_request'.op = "update" /\ crud_request'.item_id \in Ids(items)) =>
                IF NotNullViolated(ApplyUpdate(GetItem(crud_request'.item_id),
                                               crud_request'.upd))
                    THEN crud_status' = 500 /\ items' = items
                    ELSE crud_status' = 200 /\ UpdateFrame

FrameOfCommittedRequests == [][CommittedStep]_vars

\* An update has set a column of a row that ingestion stored to an explicit
\* null and has left the row's other columns.
NullAppliedReached ==
    /\ crud_request.op = "update"
    /\ crud_request.upd.fields = {"color"}
    /\ crud_status = 200
    /\ \E it \in items :
        /\ it.id = crud_request.item_id
        /\ it.color = None
        /\ it.category # None
        /\ it.image_uri \in DOMAIN files

\* An update that sets the name to null has been answered 500.
NullNameRejectedReached ==
    /\ crud_request.op = "update"
    /\ crud_request.upd.fields = {"name"}
    /\ crud_request.upd.values.name = None
    /\ crud_status = 500

\* A delete has removed a row that ingestion stored, and its file is there.
DeleteReached ==
    /\ crud_request.op = "delete"
    /\ crud_status = 204
    /\ \E p \in Execs :
        /\ Done(p) /\ Succeeded(p)
        /\ req[p].response.item.id = crud_request.item_id
        /\ req[p].response.item \notin items
        /\ req[p].response.item.image_uri \in DOMAIN files

====
